---- MODULE Spec2Model ----
(***************************************************************************)
(* A model of PyTacView's trajectory store (core/data_engine.py), its ACMI *)
(* importer (myio/acmi_importer.py), the trail drawing and playback of the *)
(* view (ui/view_control.py) and the file, slider and reset handlers of    *)
(* the main window (ui/main_window.py).                                    *)
(*                                                                         *)
(* Conventions.  A datetime is an integer number of seconds; a timedelta   *)
(* is an integer number of seconds.  Python's None is the empty sequence   *)
(* None, and a present optional value v is Some(v) = <<v>>.  A position is *)
(* a triple of integers; an interpolated position is a triple of reduced   *)
(* fractions <<numerator, denominator>>, so that the division of the       *)
(* interpolation factor is computed exactly.  float32 rounding is not      *)
(* modelled.                                                               *)
(***************************************************************************)
EXTENDS Integers, Sequences, FiniteSets, TLC

VARIABLES
    entity,            \* SpecEntity, SpecTrail: one Entity under test
    query,             \* last get_position_at (SpecEntity) or
                       \* get_entities_at_time (SpecQuery) call and its outcome
    current_time,      \* DataEngine.current_time (the cursor)
    trail_length,      \* ViewControl.trail_length
    trail,             \* ViewControl: the line strip drawn by the last paint
    entities,          \* DataEngine.entities
    start_time,        \* DataEngine.start_time
    end_time,          \* DataEngine.end_time
    lines,             \* the text handed to the last import_file call
    import_result,     \* what import_file returned
    current_entities,  \* _parse_data's local dict when the parse ended
    reference_time,    \* ACMIImporter.reference_time
    engines,           \* SpecWindow: the DataEngine objects alive, by identity
    main_window,       \* SpecWindow: MainWindow (data_engine, time_slider)
    view_control,      \* SpecWindow: ViewControl (data_engine)
    op                 \* name of the last operation performed

vars == <<entity, query, current_time, trail_length, trail, entities,
          start_time, end_time, lines, import_result, current_entities,
          reference_time, engines, main_window, view_control, op>>

----------------------------------------------------------------------------
(* Bounds *)

MaxSamples == 3      \* samples appended to the entity under test
MaxT == 3            \* timestamps range over 0..MaxT
MaxTrail == 2        \* trail lengths set by the slider range over 1..MaxTrail
MaxLines == 4        \* lines of an arbitrary input file
MaxBody == 4         \* record lines after a well-formed header
MaxEntitySamples == 2  \* samples of an entity handed to add_entity
MaxRecords == 2      \* entity lines of a record stream
MaxRewind == 10      \* Left-arrow steps are followed this far before start_time

Times == 0 .. MaxT
QueryTimes == 0 .. (MaxT + 1)
Positions == { <<0, 0, 0>>, <<2, 4, -6>> }

----------------------------------------------------------------------------
(* Optional values and exact arithmetic *)

None == << >>
Some(v) == << v >>
Val(o) == o[1]

Abs(n) == IF n < 0 THEN -n ELSE n

RECURSIVE Gcd(_, _)
Gcd(a, b) == IF b = 0 THEN a ELSE Gcd(b, a % b)

\* the reduced fraction n/d, d # 0
Frac(n, d) ==
    LET g == Gcd(Abs(n), Abs(d))
        s == IF d < 0 THEN -1 ELSE 1
    IN  << (s * n) \div g, (s * d) \div g >>

\* a stored position read as a triple of fractions
Exact(p) == [ k \in 1..3 |-> Frac(p[k], 1) ]

----------------------------------------------------------------------------
(* core/data_engine.py: Entity *)

Entity(id, name, type_name, coalition) ==
    [ id |-> id, name |-> name, type_name |-> type_name,
      coalition |-> coalition,
      trajectory |-> << >>, timestamps |-> << >>,
      visible |-> TRUE, color |-> None,
      is_aircraft |-> FALSE, is_missile |-> FALSE, is_explosion |-> FALSE,
      radius |-> 100 ]

add_point(e, timestamp, position, orientation) ==
    [ e EXCEPT
        !.timestamps = Append(@, timestamp),
        !.trajectory = Append(@, [ position |-> position,
                                   orientation |-> orientation,
                                   velocity |-> None ]) ]

\* outcomes of get_position_at
Absent == [ kind |-> "None", position |-> << >> ]
Raised(exc) == [ kind |-> exc, position |-> << >> ]
Returned(p) == [ kind |-> "position", position |-> p ]

\* Interpolate with the factor measured from the wrong end of the bracket
Interpolate_FromEnd(t1, t2, p1, p2, timestamp) ==
    [ k \in 1..3 |->
        Frac(p1[k] * (t2 - t1) + (t2 - timestamp) * (p2[k] - p1[k]), t2 - t1) ]

\* factor = (timestamp - t1).total_seconds() / (t2 - t1).total_seconds()
\* p1 + factor * (p2 - p1), on every axis
Interpolate(t1, t2, p1, p2, timestamp) ==
    [ k \in 1..3 |->
        Frac(p1[k] * (t2 - t1) + (timestamp - t1) * (p2[k] - p1[k]), t2 - t1) ]

\* the loop over range(len(timestamps) - 1), from index i on
RECURSIVE ScanBracket(_, _, _)
ScanBracket(e, timestamp, i) ==
    IF i > Len(e.timestamps) - 1 THEN Absent
    ELSE IF e.timestamps[i] <= timestamp /\ timestamp <= e.timestamps[i+1]
         THEN IF e.timestamps[i+1] - e.timestamps[i] = 0
              THEN Raised("ZeroDivisionError")
              ELSE Returned(Interpolate(e.timestamps[i], e.timestamps[i+1],
                                        e.trajectory[i].position,
                                        e.trajectory[i+1].position,
                                        timestamp))
         ELSE ScanBracket(e, timestamp, i + 1)

get_position_at(e, timestamp) ==
    IF e.trajectory = << >> THEN Absent
    ELSE IF timestamp < e.timestamps[1] THEN Absent
    ELSE IF timestamp > e.timestamps[Len(e.timestamps)]
         THEN Returned(Exact(e.trajectory[Len(e.trajectory)].position))
    ELSE ScanBracket(e, timestamp, 1)

----------------------------------------------------------------------------
(* core/data_engine.py: DataEngine *)

EmptyDict == [ id \in {} |-> None ]

\* DataEngine.__init__ (the fields the model keeps)
DataEngine ==
    [ entities |-> EmptyDict, start_time |-> None, end_time |-> None,
      current_time |-> None ]

add_entity(eng, e) ==
    LET stored == [ id \in DOMAIN eng.entities \cup { e.id } |->
                      IF id = e.id THEN e ELSE eng.entities[id] ]
        first_time == e.timestamps[1]
        last_time == e.timestamps[Len(e.timestamps)]
        start == IF e.timestamps = << >> THEN eng.start_time
                 ELSE IF eng.start_time = None \/ first_time < Val(eng.start_time)
                      THEN Some(first_time)
                      ELSE eng.start_time
        end == IF e.timestamps = << >> THEN eng.end_time
               ELSE IF eng.end_time = None \/ last_time > Val(eng.end_time)
                    THEN Some(last_time)
                    ELSE eng.end_time
        cursor == IF eng.current_time = None /\ start # None
                  THEN start
                  ELSE eng.current_time
    IN  [ entities |-> stored, start_time |-> start, end_time |-> end,
          current_time |-> cursor ]

\* the least / greatest element of a non-empty set of integers
Least(S) == CHOOSE x \in S : \A y \in S : x <= y
Greatest(S) == CHOOSE x \in S : \A y \in S : x >= y

\* recalculate_time_range that leaves the bounds as they are
recalculate_time_range_Stale(eng) == eng

\* _recalculate_time_range: a fold of min / max over the stored entities
\* that have samples
recalculate_time_range(eng) ==
    LET sampled == { id \in DOMAIN eng.entities :
                       eng.entities[id].timestamps # << >> }
        firsts == { eng.entities[id].timestamps[1] : id \in sampled }
        lasts == { eng.entities[id].timestamps[
                       Len(eng.entities[id].timestamps)] : id \in sampled }
    IN  [ eng EXCEPT
            !.start_time = IF sampled = {} THEN None ELSE Some(Least(firsts)),
            !.end_time = IF sampled = {} THEN None ELSE Some(Greatest(lasts)) ]

remove_entity(eng, entity_id) ==
    IF entity_id \in DOMAIN eng.entities
    THEN recalculate_time_range(
             [ eng EXCEPT !.entities =
                 [ id \in DOMAIN eng.entities \ { entity_id } |->
                     eng.entities[id] ] ])
    ELSE eng

\* outcomes of get_entities_at_time: the dict returned, or the exception
\* that get_position_at raised and nothing caught
Entries(d) == [ kind |-> "dict", entries |-> d ]
Propagated(exc) == [ kind |-> exc, entries |-> EmptyDict ]

get_entities_at_time(eng, timestamp) ==
    LET t == IF timestamp = None THEN eng.current_time ELSE timestamp
        shown == { id \in DOMAIN eng.entities : eng.entities[id].visible }
        position(id) == get_position_at(eng.entities[id], Val(t))
        raising == { id \in shown : position(id).kind \notin { "None", "position" } }
        found == { id \in shown : position(id).kind = "position" }
    IN  IF t = None THEN Entries(EmptyDict)
        ELSE IF raising # {}
             THEN Propagated(position(CHOOSE id \in raising : TRUE).kind)
        ELSE Entries([ id \in found |->
                         [ entity |-> eng.entities[id],
                           position |-> position(id).position ] ])

set_time(eng, timestamp) == [ eng EXCEPT !.current_time = timestamp ]

advance_time(eng, seconds) ==
    IF eng.current_time = None THEN eng
    ELSE [ eng EXCEPT !.current_time = Some(Val(@) + seconds) ]

----------------------------------------------------------------------------
(* myio/acmi_importer.py: the input text *)

(* A line of the input is a record of what the parser can observe of it.   *)
(*   kind      "blank"    empty after strip()                              *)
(*             "filetype" contains "FileType="; lead is what precedes it   *)
(*                        ("" , "bom", "junk"), family the text after it   *)
(*             "reftime"  "ReferenceTime=<text>"; value is the datetime    *)
(*                        the text parses to, None when both parsers       *)
(*                        raise ValueError                                 *)
(*             "frame"    "#<text>"; value is what float(<text>) yields,   *)
(*                        None when it raises ValueError                   *)
(*             "entity"   "<id>,<key=value list>"; name, type_name, color  *)
(*                        are the captured attribute texts, radius the     *)
(*                        captured text's float() (Some(None) when it      *)
(*                        raises), t the '|'-separated fields of T=, each  *)
(*                        its float() value or None                        *)
(*             "garbage"  any other text without ',' or without '='        *)
(* A string shown to the user is a sequence of fragments.                  *)
Line ==
    [ kind |-> "blank", lead |-> "", family |-> "", value |-> None,
      id |-> "", name |-> None, type_name |-> None, color |-> None,
      radius |-> None, t |-> None ]

Blank == Line
Garbage == [ Line EXCEPT !.kind = "garbage" ]
FileType(lead, family) ==
    [ Line EXCEPT !.kind = "filetype", !.lead = lead, !.family = family ]
ReferenceTime(value) == [ Line EXCEPT !.kind = "reftime", !.value = value ]
Frame(value) == [ Line EXCEPT !.kind = "frame", !.value = value ]
EntityLine(id, name, type_name, color, radius, t) ==
    [ Line EXCEPT !.kind = "entity", !.id = id, !.name = name,
                  !.type_name = type_name, !.color = color,
                  !.radius = radius, !.t = t ]

\* the largest offset for which timedelta(seconds=offset) and its sum with
\* the reference time are representable
TimedeltaMax == 1000

\* "acmi" in file_type_line.lower()
ContainsAcmi(family) == family \in { "text/acmi/tacview", "ACMI", "acmi_ver_2" }
\* "explosion" in entity_type.lower()
ContainsExplosion(type_name) ==
    type_name \in { "Explosion", "SAM_Explosion", "explosion" }
\* "AIM" in name
ContainsAIM(name) == name \in { "AIM-9", "AIM-120" }
\* entity_id.startswith('A') or entity_id.startswith('B')
SidePrefix(id) == id \in { "A1", "A2", "B1", "B2" }
\* color_name.lower()
Lower(text) ==
    CASE text \in { "Red", "RED", "red" } -> "red"
      [] text \in { "Blue", "BLUE", "blue" } -> "blue"
      [] text \in { "Green", "GREEN", "green" } -> "green"
      [] OTHER -> text

----------------------------------------------------------------------------
(* myio/acmi_importer.py: ACMIImporter *)

reference_lon_deg == 120
reference_lat_deg == 60
reference_alt_m == 0

\* pymap3d.geodetic2ned is a library call; it is modelled to first order at
\* the reference point, one unit of north / east per degree
geodetic2ned(lat, lon, alt, lat0, lon0, alt0) ==
    << lat - lat0, lon - lon0, -(alt - alt0) >>

\* math.radians, in units of 1e-4 rad
radians(deg) == (deg * 17453) \div 100

\* the loop of _parse_header over the lines from index i on; ref is the
\* reference time found so far
RECURSIVE ScanHeader(_, _, _)
ScanHeader(ls, i, ref) ==
    IF i > Len(ls) THEN [ ok |-> FALSE, reference_time |-> ref ]
    ELSE IF ls[i].kind = "reftime"
         THEN IF ls[i].value = None
              THEN [ ok |-> FALSE, reference_time |-> ref ]
              ELSE ScanHeader(ls, i + 1, ls[i].value)
    ELSE IF ls[i].kind = "frame"
         THEN [ ok |-> TRUE, reference_time |-> ref ]
    ELSE ScanHeader(ls, i + 1, ref)

parse_header(ls, ref) ==
    IF Len(ls) = 0 THEN [ ok |-> FALSE, reference_time |-> ref ]
    ELSE IF ls[1].kind # "filetype"
         THEN [ ok |-> FALSE, reference_time |-> ref ]
    ELSE IF ~ContainsAcmi(ls[1].family)
         THEN [ ok |-> FALSE, reference_time |-> ref ]
    ELSE ScanHeader(ls, 1, ref)

\* position of the entity with this id in the dict (0 when it has none)
IndexOf(dict, id) ==
    IF \E i \in 1 .. Len(dict) : dict[i].id = id
    THEN CHOOSE i \in 1 .. Len(dict) : dict[i].id = id
    ELSE 0

\* NewEntity that tests the missile rule before the explosion rule
NewEntity_MissileFirst(line) ==
    LET name == IF line.name = None THEN << "Unknown ", line.id >>
                ELSE << Val(line.name) >>
        radius == IF line.radius = None THEN None
                  ELSE IF Val(line.radius) = None THEN Some(100)
                  ELSE Val(line.radius)
        color == IF line.color = None THEN None
                 ELSE IF Lower(Val(line.color)) = "red" THEN Some(<< 10, 0, 0 >>)
                 ELSE IF Lower(Val(line.color)) = "blue" THEN Some(<< 0, 0, 10 >>)
                 ELSE IF Lower(Val(line.color)) = "green" THEN Some(<< 0, 10, 0 >>)
                 ELSE Some(<< 7, 7, 7 >>)
        e == [ Entity(line.id, name, line.type_name, None) EXCEPT !.color = color ]
    IN  IF SidePrefix(line.id) /\ \E k \in 1 .. Len(name) : ContainsAIM(name[k])
        THEN [ e EXCEPT !.is_missile = TRUE ]
        ELSE IF line.type_name # None /\ ContainsExplosion(Val(line.type_name))
        THEN [ e EXCEPT !.is_explosion = TRUE,
                        !.radius = IF radius # None /\ Val(radius) # 0
                                   THEN Val(radius) ELSE 300 ]
        ELSE [ e EXCEPT !.is_aircraft = TRUE ]

\* the entity _parse_entity_data creates for an id it has not seen
NewEntity(line) ==
    LET name == IF line.name = None THEN << "Unknown ", line.id >>
                ELSE << Val(line.name) >>
        radius == IF line.radius = None THEN None
                  ELSE IF Val(line.radius) = None THEN Some(100)
                  ELSE Val(line.radius)
        color == IF line.color = None THEN None
                 ELSE IF Lower(Val(line.color)) = "red" THEN Some(<< 10, 0, 0 >>)
                 ELSE IF Lower(Val(line.color)) = "blue" THEN Some(<< 0, 0, 10 >>)
                 ELSE IF Lower(Val(line.color)) = "green" THEN Some(<< 0, 10, 0 >>)
                 ELSE Some(<< 7, 7, 7 >>)
        e == [ Entity(line.id, name, line.type_name, None) EXCEPT !.color = color ]
    IN  IF line.type_name # None /\ ContainsExplosion(Val(line.type_name))
        THEN [ e EXCEPT !.is_explosion = TRUE,
                        !.radius = IF radius # None /\ Val(radius) # 0
                                   THEN Val(radius) ELSE 300 ]
        ELSE IF SidePrefix(line.id) /\ \E k \in 1 .. Len(name) : ContainsAIM(name[k])
        THEN [ e EXCEPT !.is_missile = TRUE ]
        ELSE [ e EXCEPT !.is_aircraft = TRUE ]

\* the position part of _parse_entity_data: the entity after the T= field
\* of the line has been handled at record time now
ApplyPosition(e, line, now) ==
    IF line.t = None \/ now = None THEN e
    ELSE LET t_values == Val(line.t)
         IN  IF Len(t_values) < 3 THEN e
             ELSE IF \E k \in 1..3 : t_values[k] = None THEN e
             ELSE LET ned == geodetic2ned(Val(t_values[2]), Val(t_values[1]),
                                          Val(t_values[3]), reference_lat_deg,
                                          reference_lon_deg, reference_alt_m)
                      position == << ned[2], ned[1], -ned[3] >>
                  IN  IF Len(t_values) >= 6
                      THEN IF \E k \in 4..6 : t_values[k] = None THEN e
                           ELSE add_point(e, Val(now), position,
                                    Some(<< radians(Val(t_values[4])),
                                            radians(Val(t_values[5])),
                                            radians(Val(t_values[6])) >>))
                      ELSE add_point(e, Val(now), position, None)

\* parse_entity_data that rebuilds a known entity from the line's attributes
parse_entity_data_Revised(line, now, dict) ==
    LET i == IndexOf(dict, line.id)
    IN  IF i = 0
        THEN Append(dict, ApplyPosition(NewEntity(line), line, now))
        ELSE [ dict EXCEPT ![i] =
                 ApplyPosition([ NewEntity(line) EXCEPT
                                   !.trajectory = dict[i].trajectory,
                                   !.timestamps = dict[i].timestamps ],
                               line, now) ]

\* _parse_entity_data: the dict after one entity line
parse_entity_data(line, now, dict) ==
    LET i == IndexOf(dict, line.id)
    IN  IF i = 0
        THEN Append(dict, ApplyPosition(NewEntity(line), line, now))
        ELSE [ dict EXCEPT ![i] = ApplyPosition(dict[i], line, now) ]

\* ParseStart with a record time already established
ParseStart_Clocked ==
    [ current_entities |-> << >>, current_time |-> Some(0),
      data_start |-> FALSE, raised |-> None ]

\* the local state of _parse_data
ParseStart ==
    [ current_entities |-> << >>, current_time |-> None,
      data_start |-> FALSE, raised |-> None ]

\* ParseLine in which only the first parsed frame line sets the record time
ParseLine_FirstFrame(st, line, ref) ==
    IF line.kind = "blank" THEN st
    ELSE IF ~(st.data_start \/ line.kind = "frame") THEN st
    ELSE IF line.kind = "frame"
         THEN IF line.value = None
              THEN [ st EXCEPT !.data_start = TRUE ]
              ELSE IF Val(line.value) > TimedeltaMax
                   THEN [ st EXCEPT !.data_start = TRUE,
                                    !.raised = Some("OverflowError") ]
              ELSE IF ref = None
                   THEN [ st EXCEPT !.data_start = TRUE,
                                    !.raised = Some("TypeError") ]
              ELSE IF st.current_time # None
                   THEN [ st EXCEPT !.data_start = TRUE ]
              ELSE [ st EXCEPT !.data_start = TRUE,
                               !.current_time = Some(Val(ref) + Val(line.value)) ]
    ELSE IF line.kind = "entity"
         THEN [ st EXCEPT !.current_entities =
                  parse_entity_data(line, st.current_time, @) ]
    ELSE st

\* one iteration of the loop of _parse_data
ParseLine(st, line, ref) ==
    IF line.kind = "blank" THEN st
    ELSE IF ~(st.data_start \/ line.kind = "frame") THEN st
    ELSE IF line.kind = "frame"
         THEN IF line.value = None
              THEN [ st EXCEPT !.data_start = TRUE ]
              ELSE IF Val(line.value) > TimedeltaMax
                   THEN [ st EXCEPT !.data_start = TRUE,
                                    !.raised = Some("OverflowError") ]
              ELSE IF ref = None
                   THEN [ st EXCEPT !.data_start = TRUE,
                                    !.raised = Some("TypeError") ]
              ELSE [ st EXCEPT !.data_start = TRUE,
                               !.current_time = Some(Val(ref) + Val(line.value)) ]
    ELSE IF line.kind = "entity"
         THEN [ st EXCEPT !.current_entities =
                  parse_entity_data(line, st.current_time, @) ]
    ELSE st

\* the loop of _parse_data over the lines from index i on; it stops at the
\* first exception that nothing catches
RECURSIVE ParseLines(_, _, _, _)
ParseLines(ls, i, ref, st) ==
    IF i > Len(ls) \/ st.raised # None THEN st
    ELSE ParseLines(ls, i + 1, ref, ParseLine(st, ls[i], ref))

\* AddParsed that registers every parsed entity, sampled or not
RECURSIVE AddParsed_All(_, _, _)
AddParsed_All(eng, dict, i) ==
    IF i > Len(dict) THEN eng
    ELSE AddParsed_All(add_entity(eng, dict[i]), dict, i + 1)

\* the final loop of _parse_data: add_entity for the entities with samples
RECURSIVE AddParsed(_, _, _)
AddParsed(eng, dict, i) ==
    IF i > Len(dict) THEN eng
    ELSE IF dict[i].trajectory # << >>
         THEN AddParsed(add_entity(eng, dict[i]), dict, i + 1)
    ELSE AddParsed(eng, dict, i + 1)

\* import_file of an existing, readable file whose lines are ls, into eng
import_file(eng, ref, ls) ==
    LET header == parse_header(ls, ref)
        st == ParseLines(ls, 1, header.reference_time, ParseStart)
    IN  IF ~header.ok
        THEN [ result |-> FALSE, engine |-> eng,
               reference_time |-> header.reference_time,
               current_entities |-> << >> ]
        ELSE IF st.raised # None
        THEN [ result |-> FALSE, engine |-> eng,
               reference_time |-> header.reference_time,
               current_entities |-> st.current_entities ]
        ELSE [ result |-> TRUE,
               engine |-> AddParsed(eng, st.current_entities, 1),
               reference_time |-> header.reference_time,
               current_entities |-> st.current_entities ]

----------------------------------------------------------------------------
(* ui/view_control.py: ViewControl._draw_entity_trail *)

\* the forward loop: the last index of the leading run of timestamps that
\* are <= now (0-based; 0 when the run is empty)
RECURSIVE CurrentIdx(_, _, _, _)
CurrentIdx(ts, now, i, current_idx) ==
    IF i > Len(ts) - 1 THEN current_idx
    ELSE IF ts[i + 1] <= now THEN CurrentIdx(ts, now, i + 1, i)
    ELSE current_idx

\* StartIdx that keeps the sample found at or before trail_start_time
RECURSIVE StartIdx_Inclusive(_, _, _)
StartIdx_Inclusive(ts, trail_start_time, i) ==
    IF i < 0 THEN 0
    ELSE IF ts[i + 1] <= trail_start_time THEN i
    ELSE StartIdx_Inclusive(ts, trail_start_time, i - 1)

\* the backward loop from current_idx down to 0 (0-based)
RECURSIVE StartIdx(_, _, _)
StartIdx(ts, trail_start_time, i) ==
    IF i < 0 THEN 0
    ELSE IF ts[i + 1] <= trail_start_time THEN i + 1
    ELSE StartIdx(ts, trail_start_time, i - 1)

\* the vertices of the line strip; Some(<< >>) when the method returns
\* without drawing
NoStrip == Some(<< >>)

draw_entity_trail(e, now, length) ==
    IF e.trajectory = << >> \/ now = None THEN NoStrip
    ELSE LET current_idx == CurrentIdx(e.timestamps, Val(now), 0, 0)
         IN  IF current_idx < 1 THEN NoStrip
             ELSE LET trail_start_time == Val(now) - length
                      start_idx == StartIdx(e.timestamps, trail_start_time,
                                            current_idx)
                  IN  IF start_idx >= current_idx THEN NoStrip
                      ELSE Some([ k \in 1 .. (current_idx - start_idx + 1) |->
                                    e.trajectory[start_idx + k].position ])

----------------------------------------------------------------------------
(* ui/main_window.py: MainWindow, and the playback of ui/view_control.py *)

(* The window state is the DataEngine objects that are still referenced,   *)
(* each known by its index in engines, and the two references to them:     *)
(* MainWindow.data_engine and ViewControl.data_engine.  The time slider    *)
(* counts tenths of a second.                                              *)

\* a QSlider as constructed: range 0 .. 99, value 0
SliderDefaultMaximum == 99

Window ==
    [ engines |-> engines, main_window |-> main_window,
      view_control |-> view_control ]

SetWindow(w) ==
    /\ engines' = w.engines
    /\ main_window' = w.main_window
    /\ view_control' = w.view_control

\* MainWindow.__init__ and init_ui: one DataEngine, shared with the view;
\* the time slider starts disabled
InitWindow ==
    /\ engines = << DataEngine >>
    /\ main_window = [ data_engine |-> 1,
                       time_slider |-> [ value |-> 0,
                                         maximum |-> SliderDefaultMaximum,
                                         enabled |-> FALSE ] ]
    /\ view_control = [ data_engine |-> 1 ]

\* objects that nothing references any more are gone
Collect(w) ==
    IF w.main_window.data_engine = w.view_control.data_engine
    THEN [ w EXCEPT !.engines = << w.engines[w.main_window.data_engine] >>,
                    !.main_window.data_engine = 1,
                    !.view_control.data_engine = 1 ]
    ELSE [ w EXCEPT !.engines = << w.engines[w.view_control.data_engine],
                                   w.engines[w.main_window.data_engine] >>,
                    !.view_control.data_engine = 1,
                    !.main_window.data_engine = 2 ]

\* MainWindow._time_slider_changed, the slot of time_slider.valueChanged
time_slider_changed(w, value) ==
    LET i == w.main_window.data_engine
        start == w.engines[i].start_time
    IN  IF start = None THEN w
        ELSE [ w EXCEPT !.engines[i] =
                 set_time(@, Some(Val(start) + value \div 10)) ]

\* QSlider.setValue: valueChanged is emitted when the value changes
setValue(w, value) ==
    IF w.main_window.time_slider.value = value THEN w
    ELSE time_slider_changed(
             [ w EXCEPT !.main_window.time_slider.value = value ], value)

\* QSlider.setRange(0, maximum): the value is clamped into the new range
setRange(w, maximum) ==
    LET value == w.main_window.time_slider.value
    IN  setValue([ w EXCEPT !.main_window.time_slider.maximum = maximum ],
                 IF value > maximum THEN maximum ELSE value)

\* MainWindow._update_time_controls
update_time_controls(w) ==
    LET eng == w.engines[w.main_window.data_engine]
    IN  IF eng.start_time # None /\ eng.end_time # None
        THEN setRange(w, (Val(eng.end_time) - Val(eng.start_time)) * 10)
        ELSE w

\* MainWindow.open_file; file is None when the dialog is cancelled, else
\* the lines of the chosen file
open_file(w, file) ==
    IF file = None THEN w
    ELSE LET out == import_file(DataEngine, None, Val(file))
             fresh == Len(w.engines) + 1
             reset == [ w EXCEPT !.engines = Append(@, out.engine),
                                 !.main_window.data_engine = fresh ]
         IN  Collect(
               IF out.result
               THEN [ update_time_controls(
                          [ reset EXCEPT !.view_control.data_engine = fresh ])
                        EXCEPT !.main_window.time_slider.enabled = TRUE ]
               ELSE reset)

\* MainWindow._reset_time
reset_time(w) ==
    LET i == w.main_window.data_engine
        start == w.engines[i].start_time
    IN  IF start = None THEN w
        ELSE setValue([ w EXCEPT !.engines[i] = set_time(@, start) ], 0)

\* ViewControl.advance_time(seconds)
ViewControl_advance_time(w, seconds) ==
    LET i == w.view_control.data_engine
        advanced == advance_time(w.engines[i], seconds)
    IN  IF w.engines[i].current_time = None THEN w
        ELSE IF /\ advanced.end_time # None
                /\ Val(advanced.current_time) > Val(advanced.end_time)
             THEN [ w EXCEPT !.engines[i] = set_time(advanced, advanced.start_time) ]
        ELSE [ w EXCEPT !.engines[i] = advanced ]

\* ViewControl.keyPressEvent for the keys that move the cursor
keyPressEvent(w, key) ==
    IF key = "Key_Right" THEN ViewControl_advance_time(w, 5)
    ELSE IF key = "Key_Left" THEN ViewControl_advance_time(w, -5)
    ELSE w

----------------------------------------------------------------------------
(* SpecEntity: one Entity, grown by add_point and queried *)

NoQuery == [ timestamp |-> None, result |-> Absent ]

InitIdle ==
    /\ current_time = None
    /\ trail_length = 30
    /\ trail = None
    /\ entities = EmptyDict
    /\ start_time = None
    /\ end_time = None
    /\ lines = << >>
    /\ import_result = None
    /\ current_entities = << >>
    /\ reference_time = None
    /\ InitWindow

InitEntity ==
    /\ entity = Entity("A1", <<"Eagle">>, None, None)
    /\ query = NoQuery
    /\ op = "init"
    /\ InitIdle

AddPoint ==
    /\ Len(entity.timestamps) < MaxSamples
    /\ \E timestamp \in Times, position \in Positions :
          entity' = add_point(entity, timestamp, position, None)
    /\ query' = NoQuery
    /\ trail' = None
    /\ op' = "add_point"
    /\ UNCHANGED <<current_time, trail_length, entities, start_time,
                   end_time, lines, import_result, current_entities,
                   reference_time>>
    /\ UNCHANGED <<engines, main_window, view_control>>

GetPositionAt ==
    /\ \E timestamp \in QueryTimes :
          query' = [ timestamp |-> Some(timestamp),
                     result |-> get_position_at(entity, timestamp) ]
    /\ op' = "get_position_at"
    /\ UNCHANGED <<entity, current_time, trail_length, trail, entities,
                   start_time, end_time, lines, import_result,
                   current_entities, reference_time>>
    /\ UNCHANGED <<engines, main_window, view_control>>

NextEntity == AddPoint \/ GetPositionAt

SpecEntity == InitEntity /\ [][NextEntity]_vars

----------------------------------------------------------------------------
(* SpecTrail: the entity under test, the cursor and the trail length *)

\* DataEngine.set_time
SetTime ==
    /\ \E timestamp \in QueryTimes : current_time' = Some(timestamp)
    /\ trail' = None
    /\ op' = "set_time"
    /\ UNCHANGED <<entity, query, trail_length, entities, start_time,
                   end_time, lines, import_result, current_entities,
                   reference_time>>
    /\ UNCHANGED <<engines, main_window, view_control>>

\* ViewControl.set_trail_length
SetTrailLength ==
    /\ \E seconds \in 1 .. MaxTrail : trail_length' = seconds
    /\ trail' = None
    /\ op' = "set_trail_length"
    /\ UNCHANGED <<entity, query, current_time, entities, start_time,
                   end_time, lines, import_result, current_entities,
                   reference_time>>
    /\ UNCHANGED <<engines, main_window, view_control>>

DrawEntityTrail ==
    /\ trail' = draw_entity_trail(entity, current_time, trail_length)
    /\ op' = "draw_entity_trail"
    /\ UNCHANGED <<entity, query, current_time, trail_length, entities,
                   start_time, end_time, lines, import_result,
                   current_entities, reference_time>>
    /\ UNCHANGED <<engines, main_window, view_control>>

NextTrail == AddPoint \/ SetTime \/ SetTrailLength \/ DrawEntityTrail

SpecTrail == InitEntity /\ [][NextTrail]_vars

----------------------------------------------------------------------------
(* Properties of get_position_at (SpecEntity) *)

Queried == op = "get_position_at" /\ query.timestamp # None
QTime == Val(query.timestamp)
NSamples == Len(entity.timestamps)
FirstTime == entity.timestamps[1]
LastTime == entity.timestamps[NSamples]
LastPosition == entity.trajectory[Len(entity.trajectory)].position

NonDecreasing(ts) == \A i \in 1 .. (Len(ts) - 1) : ts[i] <= ts[i+1]

Brackets(i) ==
    entity.timestamps[i] <= QTime /\ QTime <= entity.timestamps[i+1]

C2_ZeroDurationBracket ==
    \A i \in 1 .. (NSamples - 1) :
        ( /\ Queried
          /\ FirstTime <= QTime /\ QTime <= LastTime
          /\ Brackets(i)
          /\ \A j \in 1 .. (i - 1) : ~Brackets(j)
          /\ entity.timestamps[i] = entity.timestamps[i+1] )
        => query.result = Returned(Exact(entity.trajectory[i].position))

\* C9: for non-decreasing timestamps and a query time strictly between the
\* first and the last timestamp, the result lies on the segment of a
\* consecutive bracketing pair (i, i+1) of positive duration, at the
\* fraction f = (t - t_i) / (t_{i+1} - t_i), on every axis:
\* (result - pos[i]) * (t_{i+1} - t_i) = (t - t_i) * (pos[i+1] - pos[i]).
C9_Precondition ==
    /\ Queried
    /\ NSamples >= 2
    /\ NonDecreasing(entity.timestamps)
    /\ FirstTime < QTime /\ QTime < LastTime

C9_OnBracketSegment ==
    C9_Precondition =>
        /\ query.result.kind = "position"
        /\ \E i \in 1 .. (NSamples - 1) :
              /\ Brackets(i)
              /\ entity.timestamps[i] < entity.timestamps[i+1]
              /\ \A k \in 1..3 :
                    LET r  == query.result.position[k]
                        dt == entity.timestamps[i+1] - entity.timestamps[i]
                        p1 == entity.trajectory[i].position[k]
                        p2 == entity.trajectory[i+1].position[k]
                    IN  (r[1] - p1 * r[2]) * dt
                            = (QTime - entity.timestamps[i]) * (p2 - p1) * r[2]

\* a query strictly inside a bracket whose result is not a stored position
C9_Witness ==
    /\ C9_Precondition
    /\ query.result.kind = "position"
    /\ query.result.position[1][2] > 1

\* C10: get_position_at returns absent, without raising, for an entity with
\* no samples and for a time strictly before the first timestamp; for
\* non-decreasing timestamps it returns absent in no other case.
C10_AbsentOnlyBeforeFirst ==
    Queried =>
        /\ (NSamples = 0 \/ QTime < FirstTime) => query.result = Absent
        /\ (NonDecreasing(entity.timestamps) /\ query.result = Absent)
              => (NSamples = 0 \/ QTime < FirstTime)

----------------------------------------------------------------------------
(* Properties of the trail (SpecTrail) *)

Painted == op = "draw_entity_trail"
Now == Val(current_time)
TrailStart == Now - trail_length

\* the positions of the samples i .. Len with lo < timestamp and hi(timestamp)
RECURSIVE RawBetween(_, _, _, _)
RawBetween(e, lo, hi, i) ==
    IF i > Len(e.timestamps) THEN << >>
    ELSE IF lo < e.timestamps[i] /\ e.timestamps[i] <= hi
         THEN << e.trajectory[i].position >> \o RawBetween(e, lo, hi, i + 1)
         ELSE RawBetween(e, lo, hi, i + 1)

ExactSeq(ps) == [ k \in 1 .. Len(ps) |-> Exact(ps[k]) ]

\* what C8 describes: interpolated first point, raw samples strictly inside
\* the window, interpolated last point
C8_Described ==
    LET from  == IF TrailStart > FirstTime THEN TrailStart ELSE FirstTime
        first == get_position_at(entity, from)
        last  == get_position_at(entity, Now)
    IN  << first.position >>
          \o ExactSeq(RawBetween(entity, TrailStart, Now - 1, 1))
          \o << last.position >>

\* C8 (as stated): the drawn trail runs from the interpolated position at
\* max(t_start, first timestamp) through the raw samples with
\* t_start < timestamp < current_time to the interpolated position at
\* current_time, and is skipped only when that has fewer than 2 points.
C8_TrailInterpolatedEnds ==
    ( /\ Painted
      /\ current_time # None
      /\ NSamples >= 2
      /\ NonDecreasing(entity.timestamps)
      /\ \A i \in 1 .. (NSamples - 1) :
            entity.timestamps[i] < entity.timestamps[i+1]
      /\ FirstTime < Now )
    => /\ trail # NoStrip
       /\ ExactSeq(Val(trail)) = C8_Described

\* the last index of the leading run of timestamps <= current_time
C8_RunEnd ==
    Cardinality({ i \in 1 .. NSamples :
                    \A j \in 1 .. i : entity.timestamps[j] <= Now })

\* the earliest index from which every sample up to C8_RunEnd is later than
\* the look-back start
C8_RunStart ==
    LET ok == { a \in 1 .. C8_RunEnd :
                  \A j \in a .. C8_RunEnd : entity.timestamps[j] > TrailStart }
    IN  IF ok = {} THEN C8_RunEnd + 1
        ELSE CHOOSE a \in ok : \A b \in ok : a <= b

\* C8 (amended): the drawn trail is the raw sample positions, in insertion
\* order and with no interpolated point at either end, of the consecutive
\* samples from C8_RunStart to C8_RunEnd; all of them have
\* t_start < timestamp <= current_time, and for non-decreasing timestamps
\* they are all the samples of that window.  The trail is skipped exactly
\* when that run has fewer than 2 samples or no cursor is set.
C8_TrailRawWindow ==
    Painted =>
        IF current_time = None THEN trail = NoStrip
        ELSE LET a == C8_RunStart
                 b == C8_RunEnd
             IN  /\ (b - a + 1 < 2) => trail = NoStrip
                 /\ (b - a + 1 >= 2) =>
                       /\ trail = Some([ k \in 1 .. (b - a + 1) |->
                                    entity.trajectory[a + k - 1].position ])
                       /\ \A j \in a .. b :
                             /\ TrailStart < entity.timestamps[j]
                             /\ entity.timestamps[j] <= Now
                 /\ NonDecreasing(entity.timestamps) =>
                       LET raw == RawBetween(entity, TrailStart, Now, 1)
                       IN  trail = IF Len(raw) < 2 THEN NoStrip ELSE Some(raw)

\* a trail is drawn that starts after the first sample and ends at a raw
\* sample earlier than the cursor
C8_Witness ==
    /\ Painted
    /\ current_time # None
    /\ trail # NoStrip
    /\ Len(Val(trail)) >= 2
    /\ Len(Val(trail)) < NSamples
    /\ C8_RunStart > 1
    /\ entity.timestamps[C8_RunEnd] < Now

----------------------------------------------------------------------------
(* SpecEngine: a DataEngine driven through add_entity and remove_entity *)

EngineIds == { "A1", "B2" }

\* every sequence over S of length 0 .. n
SeqsUpTo(S, n) == UNION { [ 1 .. k -> S ] : k \in 0 .. n }

\* an Entity that received one add_point per timestamp of ts
RECURSIVE WithSamples(_, _, _)
WithSamples(e, ts, position) ==
    IF ts = << >> THEN e
    ELSE WithSamples(add_point(e, Head(ts), position, None), Tail(ts), position)

EngineEntities ==
    { WithSamples(Entity(id, << id >>, None, None), ts, << 0, 0, 0 >>) :
        id \in EngineIds, ts \in SeqsUpTo(Times, MaxEntitySamples) }

Engine ==
    [ entities |-> entities, start_time |-> start_time,
      end_time |-> end_time, current_time |-> current_time ]

SetEngine(eng) ==
    /\ entities' = eng.entities
    /\ start_time' = eng.start_time
    /\ end_time' = eng.end_time
    /\ current_time' = eng.current_time

InitEngine ==
    /\ entity = Entity("A1", << "Eagle" >>, None, None)
    /\ query = NoQuery
    /\ op = "init"
    /\ InitIdle

AddEntity ==
    /\ \E e \in EngineEntities : SetEngine(add_entity(Engine, e))
    /\ op' = "add_entity"
    /\ UNCHANGED <<entity, query, trail_length, trail, lines, import_result,
                   current_entities, reference_time>>
    /\ UNCHANGED <<engines, main_window, view_control>>

RemoveEntity ==
    /\ \E entity_id \in EngineIds : SetEngine(remove_entity(Engine, entity_id))
    /\ op' = "remove_entity"
    /\ UNCHANGED <<entity, query, trail_length, trail, lines, import_result,
                   current_entities, reference_time>>
    /\ UNCHANGED <<engines, main_window, view_control>>

NextEngine == AddEntity \/ RemoveEntity

SpecEngine == InitEngine /\ [][NextEngine]_vars

----------------------------------------------------------------------------
(* Properties of the registry's time bounds (SpecEngine) *)

Sampled == { id \in DOMAIN entities : entities[id].timestamps # << >> }

\* C4: after any sequence of add_entity and remove_entity calls, overwrites
\* included, start_time is the minimum first-sample timestamp and end_time
\* the maximum last-sample timestamp over the stored entities that have
\* samples.
C4_BoundsSpanStored ==
    IF Sampled = {}
    THEN start_time = None /\ end_time = None
    ELSE /\ start_time # None
         /\ end_time # None
         /\ \A id \in Sampled :
               /\ Val(start_time) <= entities[id].timestamps[1]
               /\ Val(end_time) >=
                     entities[id].timestamps[Len(entities[id].timestamps)]
         /\ \E id \in Sampled : Val(start_time) = entities[id].timestamps[1]
         /\ \E id \in Sampled :
               Val(end_time) =
                   entities[id].timestamps[Len(entities[id].timestamps)]

----------------------------------------------------------------------------
(* SpecImport: one ACMIImporter importing one file into a DataEngine *)

RefEpoch == 10       \* the reference time of the well-formed header

FileTypeOK == FileType("", "text/acmi/tacview")
ReferenceTimeOK == ReferenceTime(Some(RefEpoch))

Coords(lon, lat, alt) == << Some(lon), Some(lat), Some(alt) >>

\* A1,Name=AIM-9,Color=Red,T=120|60|0
LineA == EntityLine("A1", Some("AIM-9"), None, Some("Red"), None,
                    Some(Coords(120, 60, 0)))
\* A1,Name=Eagle,T=x|60|0
LineB == EntityLine("A1", Some("Eagle"), None, None, None,
                    Some(<< None, Some(60), Some(0) >>))
\* A1,T=121|61|5
LineC == EntityLine("A1", None, None, None, None, Some(Coords(121, 61, 5)))
\* 2,Name=Boom,Type=Explosion,Radius=50,T=122|60|0|10|20|30
LineD == EntityLine("2", Some("Boom"), Some("Explosion"), None,
                    Some(Some(50)),
                    Some(Coords(122, 60, 0) \o Coords(10, 20, 30)))

AnyLines ==
    { Blank, Garbage, FileTypeOK, FileType("", "text/plain"),
      ReferenceTimeOK, ReferenceTime(None),
      Frame(Some(1)), Frame(None), Frame(Some(TimedeltaMax + 1)), LineA }

BodyLines ==
    { Frame(Some(1)), Frame(Some(0)), Frame(None), Garbage,
      LineA, LineB, LineC, LineD }

Files ==
    SeqsUpTo(AnyLines, MaxLines)
      \cup { << FileTypeOK, ReferenceTimeOK >> \o body :
               body \in SeqsUpTo(BodyLines, MaxBody) }

\* a registry that already holds an entity when the importer is built
Preloaded ==
    add_entity(DataEngine,
               WithSamples(Entity("A1", << "Eagle" >>, None, None),
                           << RefEpoch + 2 >>, << 0, 0, 0 >>))

InitImport ==
    /\ entity = Entity("A1", << "Eagle" >>, None, None)
    /\ query = NoQuery
    /\ op = "init"
    /\ trail_length = 30
    /\ trail = None
    /\ lines = << >>
    /\ import_result = None
    /\ current_entities = << >>
    /\ reference_time = None
    /\ InitWindow
    /\ \E eng \in { DataEngine, Preloaded } :
          /\ entities = eng.entities
          /\ start_time = eng.start_time
          /\ end_time = eng.end_time
          /\ current_time = eng.current_time

\* an importer is built for one import_file call (main_window.py, open_file)
ImportFile ==
    /\ import_result = None
    /\ \E ls \in Files :
          LET out == import_file(Engine, reference_time, ls)
          IN  /\ lines' = ls
              /\ import_result' = Some(out.result)
              /\ reference_time' = out.reference_time
              /\ current_entities' = out.current_entities
              /\ SetEngine(out.engine)
    /\ op' = "import_file"
    /\ UNCHANGED <<entity, query, trail_length, trail>>
    /\ UNCHANGED <<engines, main_window, view_control>>

NextImport == ImportFile

SpecImport == InitImport /\ [][NextImport]_vars

----------------------------------------------------------------------------
(* Properties of the import (SpecImport) *)

Imported == op = "import_file"

WellFormed(e) ==
    /\ NonDecreasing(e.timestamps)
    /\ Len(e.timestamps) = Len(e.trajectory)

\* C3: in every state, whatever the input (decreasing frame offsets
\* included), every entity of the parser and of the registry has
\* non-decreasing timestamps and as many timestamps as trajectory points.
C3_SamplesOrdered ==
    /\ \A id \in DOMAIN entities : WellFormed(entities[id])
    /\ \A i \in 1 .. Len(current_entities) : WellFormed(current_entities[i])

\* C5: an import_file call either returns success and leaves a registry
\* with at least one entity and both time bounds present, or returns
\* failure and leaves entities, start_time, end_time and cursor as they
\* were before the call.
C5_Step ==
    (op' = "import_file") =>
        \/ /\ import_result' = Some(TRUE)
           /\ DOMAIN entities' # {}
           /\ start_time' # None
           /\ end_time' # None
        \/ /\ import_result' = Some(FALSE)
           /\ UNCHANGED <<entities, start_time, end_time, current_time>>

C5_AllOrNothing == [][C5_Step]_vars

\* the first line that is not blank (0 when every line is blank)
FirstNonBlank(ls) ==
    IF \E i \in 1 .. Len(ls) : ls[i].kind # "blank"
    THEN CHOOSE i \in 1 .. Len(ls) :
            /\ ls[i].kind # "blank"
            /\ \A j \in 1 .. (i - 1) : ls[j].kind = "blank"
    ELSE 0

HeaderRecognised(ls) ==
    /\ FirstNonBlank(ls) # 0
    /\ ls[FirstNonBlank(ls)].kind = "filetype"
    /\ ls[FirstNonBlank(ls)].lead \in { "", "bom" }
    /\ ContainsAcmi(ls[FirstNonBlank(ls)].family)

RefLines(ls) == { i \in 1 .. Len(ls) : ls[i].kind = "reftime" }

\* an input with one of the three header-level defects
Defective(ls) ==
    \/ FirstNonBlank(ls) = 0
    \/ ~HeaderRecognised(ls)
    \/ RefLines(ls) = {}
    \/ \A i \in RefLines(ls) : ls[i].value = None

\* an input free of all three: the header line comes first, and a
\* parsable reference time is declared, all of them parsable
Clean(ls) ==
    /\ Len(ls) > 0
    /\ FirstNonBlank(ls) = 1
    /\ HeaderRecognised(ls)
    /\ RefLines(ls) # {}
    /\ \A i \in RefLines(ls) : ls[i].value # None

\* C6: the import fails exactly when the input is empty, the protocol
\* header is missing or unrecognized, or the reference time is missing or
\* unparsable, whatever the record lines are.
C6_FailsExactlyOnHeaderDefects ==
    Imported =>
        /\ Defective(lines) => import_result = Some(FALSE)
        /\ Clean(lines) => import_result = Some(TRUE)

\* the input without its k-th line
RemoveAt(ls, k) ==
    [ i \in 1 .. (Len(ls) - 1) |-> IF i < k THEN ls[i] ELSE ls[i + 1] ]

\* a record-level malformed line: a frame line with an unparsable offset,
\* an entity line with an unparsable T= component, or a line without a
\* comma or an equals sign
Malformed(line) ==
    \/ line.kind = "frame" /\ line.value = None
    \/ line.kind = "garbage"
    \/ /\ line.kind = "entity"
       /\ line.t # None
       /\ \E k \in 1 .. Len(Val(line.t)) : Val(line.t)[k] = None

\* C7: a record-level malformed line in the record stream (after the first
\* frame line) never aborts the import, and the registry after the import
\* is the one the input without that line produces.
C7_Step ==
    (op' = "import_file") =>
        \A k \in 1 .. Len(lines') :
            ( /\ Malformed(lines'[k])
              /\ \E j \in 1 .. (k - 1) : lines'[j].kind = "frame" )
            => LET without == import_file(Engine, reference_time,
                                          RemoveAt(lines', k))
               IN  /\ import_result' = Some(without.result)
                   /\ entities' = without.engine.entities
                   /\ start_time' = without.engine.start_time
                   /\ end_time' = without.engine.end_time

C7_MalformedLineIsSkipped == [][C7_Step]_vars

----------------------------------------------------------------------------
(* Properties of the parsed samples (SpecImport) *)

\* the most recent line before line k that is a time-frame line whose
\* offset parsed (0 when there is none)
LastFrame(ls, k) ==
    LET parsed == { j \in 1 .. (k - 1) :
                      ls[j].kind = "frame" /\ ls[j].value # None }
    IN  IF parsed = {} THEN 0 ELSE Greatest(parsed)

\* an entity line whose T= field gives a position: at least three
\* components, the first three numeric, and three numeric angles when there
\* are six or more
Positioned(line) ==
    /\ line.kind = "entity"
    /\ line.t # None
    /\ Len(Val(line.t)) >= 3
    /\ \A k \in 1..3 : Val(line.t)[k] # None
    /\ Len(Val(line.t)) >= 6 => \A k \in 4..6 : Val(line.t)[k] # None

\* the lines of ls that the parse reached: all of them, or those before the
\* frame line at which the parse was aborted
Reached(ls, ref) ==
    LET aborting == { k \in 1 .. Len(ls) :
                        /\ ls[k].kind = "frame"
                        /\ ls[k].value # None
                        /\ (ref = None \/ Val(ls[k].value) > TimedeltaMax) }
    IN  IF aborting = {} THEN ls ELSE SubSeq(ls, 1, Least(aborting) - 1)

\* the lines of ls that position the entity id under an established time
SampleLines(ls, id) ==
    { k \in 1 .. Len(ls) :
        /\ ls[k].kind = "entity"
        /\ ls[k].id = id
        /\ Positioned(ls[k])
        /\ LastFrame(ls, k) # 0 }

\* a finite set of integers as an increasing sequence
RECURSIVE Ordered(_)
Ordered(S) ==
    IF S = {} THEN << >> ELSE << Least(S) >> \o Ordered(S \ { Least(S) })

\* east, north, up of a T= field relative to the reference point
ExpectedPosition(line) ==
    << Val(Val(line.t)[1]) - 120, Val(Val(line.t)[2]) - 60, Val(Val(line.t)[3]) >>

\* the positions the input gives the entity id, in input order
ExpectedPositions(ls, id) ==
    LET ks == Ordered(SampleLines(ls, id))
    IN  [ n \in 1 .. Len(ks) |-> ExpectedPosition(ls[ks[n]]) ]

StoredPositions(e) == [ n \in 1 .. Len(e.trajectory) |-> e.trajectory[n].position ]

ParsedIds == { current_entities[i].id : i \in 1 .. Len(current_entities) }
ParsedEntity(id) == current_entities[IndexOf(current_entities, id)]

\* C11: after a successful import into a fresh registry, the registry holds
\* exactly the ids that received at least one sample during the parse, each
\* with all of its samples in input order, and no entity without samples;
\* a registry that held entities before keeps the ones the parse did not
\* sample.
C11_Step ==
    (op' = "import_file" /\ import_result' = Some(TRUE)) =>
        LET sampled == { id \in ParsedIds' : SampleLines(lines', id) # {} }
        IN  /\ entities = EmptyDict => DOMAIN entities' = sampled
            /\ DOMAIN entities' = DOMAIN entities \cup sampled
            /\ \A id \in sampled :
                  /\ entities'[id] = ParsedEntity(id)'
                  /\ StoredPositions(entities'[id])
                        = ExpectedPositions(lines', id)
                  /\ Len(entities'[id].timestamps)
                        = Cardinality(SampleLines(lines', id))
            /\ \A id \in DOMAIN entities' \ sampled :
                  entities'[id] = entities[id]
            /\ \A id \in ParsedIds' \ sampled :
                  ParsedEntity(id)'.trajectory = << >>

C11_RegistryHoldsSampledEntities == [][C11_Step]_vars

\* a successful import that stored a sampled entity and dropped a declared
\* entity that was never positioned
C11_Witness ==
    /\ Imported
    /\ import_result = Some(TRUE)
    /\ \E id \in DOMAIN entities :
          /\ id \in ParsedIds
          /\ Len(entities[id].trajectory) >= 1
    /\ \E id \in ParsedIds :
          /\ id \notin DOMAIN entities
          /\ ParsedEntity(id).trajectory = << >>

\* the timestamps the input gives the entity id: for each positioning line,
\* the reference time plus the offset of the most recent parsed frame line
\* before it
ExpectedTimes(ls, id, ref) ==
    LET ks == Ordered(SampleLines(ls, id))
    IN  [ n \in 1 .. Len(ks) |->
            Val(ref) + Val(ls[LastFrame(ls, ks[n])].value) ]

\* C12: every sample appended during an import carries reference_time plus
\* the offset of the most recent successfully parsed time-frame line before
\* its entity line, never that of a later or of an older frame line; the
\* entity lines between two frame lines share one timestamp.
C12_SamplesCarryLatestFrameTime ==
    Imported =>
        /\ \A i \in 1 .. Len(current_entities) :
              current_entities[i].timestamps
                = ExpectedTimes(Reached(lines, reference_time),
                                current_entities[i].id, reference_time)
        /\ import_result = Some(TRUE) =>
              \A id \in DOMAIN entities \cap ParsedIds :
                  SampleLines(lines, id) # {} =>
                      entities[id].timestamps
                        = ExpectedTimes(lines, id, reference_time)

\* an imported entity whose samples come from two frames
C12_Witness ==
    /\ Imported
    /\ import_result = Some(TRUE)
    /\ \E id \in DOMAIN entities \cap ParsedIds :
          /\ Len(entities[id].timestamps) >= 2
          /\ entities[id].timestamps[1] # entities[id].timestamps[2]
          /\ entities[id] = ParsedEntity(id)

\* the samples of the entity id in a parser dict (none when it is not in it)
SamplesOf(dict, id) ==
    IF IndexOf(dict, id) = 0 THEN << >>
    ELSE [ n \in 1 .. Len(dict[IndexOf(dict, id)].timestamps) |->
             << dict[IndexOf(dict, id)].timestamps[n],
                dict[IndexOf(dict, id)].trajectory[n] >> ]

\* entity lines handled before any record time is established
Untimed(ls) ==
    { k \in 1 .. Len(ls) : ls[k].kind = "entity" /\ LastFrame(ls, k) = 0 }

\* those of them that follow the first line, which the header check reads
UntimedRecords(ls) == Untimed(ls) \ { 1 }

\* C13: an entity line that comes before any frame line has established a
\* record time appends no sample to any entity (the samples of every entity
\* are those of the input without that line, for a line after the protocol
\* line), and an entity never has more samples than it has entity lines
\* under an established record time.
C13_Step ==
    (op' = "import_file") =>
        /\ \A k \in UntimedRecords(lines') :
              LET without == import_file(Engine, reference_time,
                                         RemoveAt(lines', k))
              IN  \A id \in ParsedIds' \cup { lines'[k].id } :
                      SamplesOf(current_entities', id)
                        = SamplesOf(without.current_entities, id)
        /\ \A i \in 1 .. Len(current_entities') :
              Len(current_entities'[i].trajectory)
                <= Cardinality({ k \in 1 .. Len(lines') :
                                   /\ lines'[k].kind = "entity"
                                   /\ lines'[k].id = current_entities'[i].id
                                   /\ k \notin Untimed(lines') })
        /\ (\A k \in 1 .. Len(lines') : LastFrame(lines', k) = 0) =>
              \A i \in 1 .. Len(current_entities') :
                  current_entities'[i].trajectory = << >>

C13_NoSampleWithoutRecordTime == [][C13_Step]_vars

\* an entity declared with a position after a frame line that set no record
\* time, and positioned by a later line once a time is established
C13_Witness ==
    /\ Imported
    /\ import_result = Some(TRUE)
    /\ \E k \in Untimed(lines) :
          /\ Positioned(lines[k])
          /\ \E j \in 1 .. (k - 1) : lines[j].kind = "frame"
          /\ lines[k].id \in DOMAIN entities
          /\ entities[lines[k].id] = ParsedEntity(lines[k].id)
          /\ Len(entities[lines[k].id].trajectory) >= 1
          /\ Len(entities[lines[k].id].trajectory)
                < Cardinality({ j \in 1 .. Len(lines) :
                                  /\ Positioned(lines[j])
                                  /\ lines[j].id = lines[k].id })

----------------------------------------------------------------------------
(* SpecRecords: one import of a record stream of entity lines that differ   *)
(* in every attribute the parser reads                                      *)

RecordIds == { "B2", "2" }
RecordNames == { "AIM-120", "Eagle" }
RecordTypes == { None, Some("SAM_Explosion"), Some("Aircraft") }
\* a bare declaration, or Color=RED,Radius=50,T=121|61|5
RecordStyles ==
    { << None, None, None >>,
      << Some("RED"), Some(Some(50)), Some(Coords(121, 61, 5)) >> }

\* <id>,Name=<name>[,Type=<type>][,Color=..,Radius=..,T=..]
RecordLines ==
    { EntityLine(id, Some(name), type_name, style[1], style[2], style[3]) :
        id \in RecordIds, name \in RecordNames, type_name \in RecordTypes,
        style \in RecordStyles }

\* header / #1 / entity lines
RecordFiles ==
    { << FileTypeOK, ReferenceTimeOK, Frame(Some(1)) >> \o records :
        records \in SeqsUpTo(RecordLines, MaxRecords) }

\* open_file builds a DataEngine and an importer for it, then imports
ImportRecords ==
    /\ import_result = None
    /\ \E ls \in RecordFiles :
          LET out == import_file(DataEngine, None, ls)
          IN  /\ lines' = ls
              /\ import_result' = Some(out.result)
              /\ reference_time' = out.reference_time
              /\ current_entities' = out.current_entities
              /\ SetEngine(out.engine)
    /\ op' = "import_file"
    /\ UNCHANGED <<entity, query, trail_length, trail>>
    /\ UNCHANGED <<engines, main_window, view_control>>

NextRecords == ImportRecords

SpecRecords == InitEngine /\ [][NextRecords]_vars

----------------------------------------------------------------------------
(* Properties of the parsed entities (SpecRecords) *)

\* the classification the priority rule gives an entity
IsExplosion(e) == e.type_name # None /\ ContainsExplosion(Val(e.type_name))
IsMissile(e) ==
    /\ ~IsExplosion(e)
    /\ SidePrefix(e.id)
    /\ \E k \in 1 .. Len(e.name) : ContainsAIM(e.name[k])

Classified(e) ==
    /\ e.is_explosion = IsExplosion(e)
    /\ e.is_missile = IsMissile(e)
    /\ e.is_aircraft = (~IsExplosion(e) /\ ~IsMissile(e))
    /\ Cardinality({ flag \in { "is_aircraft", "is_missile", "is_explosion" } :
                       e[flag] }) = 1

\* the first entity line of the input for this id
FirstLine(ls, id) ==
    ls[Least({ k \in 1 .. Len(ls) : ls[k].kind = "entity" /\ ls[k].id = id })]

\* C14: every entity the parser creates has exactly one of is_aircraft,
\* is_missile, is_explosion set: explosion if its Type contains 'explosion'
\* (any case), otherwise missile if its id starts with 'A' or 'B' and its
\* name contains 'AIM', otherwise aircraft.
C14_ExactlyOneClass ==
    /\ \A i \in 1 .. Len(current_entities) :
          /\ Classified(current_entities[i])
          /\ current_entities[i].type_name
                = FirstLine(lines, current_entities[i].id).type_name
    /\ \A id \in DOMAIN entities : Classified(entities[id])

\* an explosion whose id and name also match the missile rule, next to an
\* entity with the missile name but no side prefix
C14_Witness ==
    /\ Imported
    /\ \E i, j \in 1 .. Len(current_entities) :
          /\ current_entities[i].is_explosion
          /\ SidePrefix(current_entities[i].id)
          /\ current_entities[i].name = << "AIM-120" >>
          /\ current_entities[j].is_aircraft
          /\ current_entities[j].name = << "AIM-120" >>

\* an entity without its samples
Attributes(e) == [ e EXCEPT !.trajectory = << >>, !.timestamps = << >> ]

\* the entity of this id in a parser dict
EntityOf(dict, id) == dict[IndexOf(dict, id)]

\* the lines for an id that the parse has already seen
LaterLines(ls) ==
    { k \in 1 .. Len(ls) :
        /\ ls[k].kind = "entity"
        /\ \E j \in 1 .. (k - 1) :
              ls[j].kind = "entity" /\ ls[j].id = ls[k].id }

\* C15: a later line for an id that the import has already seen leaves the
\* entity's name, type, color, radius and classification flags as they
\* were, whatever attributes it carries, and leaves every other entity as
\* it was; all it can do is append one sample to its entity.
C15_Step ==
    (op' = "import_file") =>
        \A k \in LaterLines(lines') :
            LET without == import_file(DataEngine, None, RemoveAt(lines', k))
                            .current_entities
                id == lines'[k].id
                now == EntityOf(current_entities', id)
                before == EntityOf(without, id)
            IN  /\ Len(without) = Len(current_entities')
                /\ \A i \in 1 .. Len(without) :
                      without[i].id # id => current_entities'[i] = without[i]
                /\ Attributes(now) = Attributes(before)
                /\ Attributes(now) = Attributes(NewEntity(FirstLine(lines', id)))
                /\ \/ now = before
                   \/ /\ Len(now.trajectory) = Len(before.trajectory) + 1
                      /\ \E n \in 1 .. Len(now.trajectory) :
                            /\ before.trajectory
                                  = [ m \in 1 .. Len(before.trajectory) |->
                                        now.trajectory[IF m < n THEN m ELSE m + 1] ]
                            /\ before.timestamps
                                  = [ m \in 1 .. Len(before.timestamps) |->
                                        now.timestamps[IF m < n THEN m ELSE m + 1] ]

C15_LaterLinesOnlyAppend == [][C15_Step]_vars

\* an entity declared without a position, then positioned by a line that
\* carries another name, type, color and radius
C15_Witness ==
    /\ Imported
    /\ \E k \in LaterLines(lines) :
          LET first == FirstLine(lines, lines[k].id)
              e == EntityOf(current_entities, lines[k].id)
          IN  /\ first.name # lines[k].name
              /\ first.type_name # lines[k].type_name
              /\ first.color # lines[k].color
              /\ first.radius # lines[k].radius
              /\ ~Positioned(first)
              /\ Positioned(lines[k])
              /\ Len(e.trajectory) = 1
              /\ e.type_name = first.type_name

----------------------------------------------------------------------------
(* Properties of the protocol check (SpecImport) *)

\* the first frame line (0 when there is none)
FirstFrame(ls) ==
    IF \E k \in 1 .. Len(ls) : ls[k].kind = "frame"
    THEN Least({ k \in 1 .. Len(ls) : ls[k].kind = "frame" })
    ELSE 0

\* nothing but the protocol check can fail the import: a frame line follows
\* a reference time, every declared reference time parses, and every frame
\* offset is representable
RestAccepted(ls) ==
    /\ FirstFrame(ls) # 0
    /\ \E k \in 1 .. FirstFrame(ls) : ls[k].kind = "reftime"
    /\ \A k \in 1 .. FirstFrame(ls) :
          ls[k].kind = "reftime" => ls[k].value # None
    /\ \A k \in 1 .. Len(ls) :
          (ls[k].kind = "frame" /\ ls[k].value # None)
              => Val(ls[k].value) <= TimedeltaMax

\* C16: the protocol check is made on the first non-empty line: an input
\* whose first non-empty line (byte-order marker and surrounding whitespace
\* removed) starts with 'FileType=' and contains 'acmi' passes it even when
\* blank lines come first, and an input whose first non-empty line does not
\* is rejected.
C16_ProtocolOnFirstNonEmptyLine ==
    Imported =>
        /\ (HeaderRecognised(lines) /\ RestAccepted(lines))
              => import_result = Some(TRUE)
        /\ ~HeaderRecognised(lines) => import_result = Some(FALSE)

----------------------------------------------------------------------------
(* SpecTracks: a DataEngine holding entities with no sample, one sample, or *)
(* a first and a last sample at different positions                         *)

Tracks ==
    { << >> } \cup { << a >> : a \in Times }
              \cup { << a, b >> : a \in Times, b \in Times }

\* the entity that received add_point once per timestamp of the track
Track(id, ts) ==
    LET e == Entity(id, << id >>, None, None)
    IN  IF Len(ts) = 0 THEN e
        ELSE IF Len(ts) = 1 THEN add_point(e, ts[1], << 0, 0, 0 >>, None)
        ELSE add_point(add_point(e, ts[1], << 0, 0, 0 >>, None),
                       ts[2], << 2, 4, -6 >>, None)

TrackEntities == { Track(id, ts) : id \in EngineIds, ts \in Tracks }

AddTrack ==
    /\ \E e \in TrackEntities : SetEngine(add_entity(Engine, e))
    /\ query' = NoQuery
    /\ op' = "add_entity"
    /\ UNCHANGED <<entity, trail_length, trail, lines, import_result,
                   current_entities, reference_time>>
    /\ UNCHANGED <<engines, main_window, view_control>>

NextTracks == AddTrack \/ RemoveEntity

SpecTracks == InitEngine /\ [][NextTracks]_vars

----------------------------------------------------------------------------
(* Properties of remove_entity (SpecTracks) *)

\* C17: remove_entity on a stored id deletes that entity and leaves
\* start_time and end_time at the minimum first-sample and maximum
\* last-sample timestamp of the remaining entities (both absent when no
\* remaining entity has samples); the other entities and the cursor are
\* unchanged.
C17_Step ==
    (op' = "remove_entity") =>
        /\ DOMAIN entities = EngineIds => DOMAIN entities' # DOMAIN entities
        /\ DOMAIN entities' # DOMAIN entities =>
              LET remaining == { id \in DOMAIN entities' :
                                   entities'[id].timestamps # << >> }
                  firsts == { entities'[id].timestamps[1] : id \in remaining }
                  lasts == { entities'[id].timestamps[
                                 Len(entities'[id].timestamps)] :
                               id \in remaining }
              IN  /\ \E id \in DOMAIN entities :
                        DOMAIN entities' = DOMAIN entities \ { id }
                  /\ \A id \in DOMAIN entities' : entities'[id] = entities[id]
                  /\ current_time' = current_time
                  /\ remaining = {} => start_time' = None /\ end_time' = None
                  /\ remaining # {} =>
                        /\ start_time' # None
                        /\ end_time' # None
                        /\ Val(start_time') \in firsts
                        /\ \A t \in firsts : Val(start_time') <= t
                        /\ Val(end_time') \in lasts
                        /\ \A t \in lasts : Val(end_time') >= t

C17_RemoveRecomputesBounds == [][C17_Step]_vars

\* a removal after which the one remaining entity starts later and ends
\* earlier than the cursor and the bounds that the removed entity had set
C17_Witness ==
    /\ op = "remove_entity"
    /\ Cardinality(DOMAIN entities) = 1
    /\ Sampled # {}
    /\ start_time # None
    /\ end_time # None
    /\ current_time # None
    /\ Val(current_time) < Val(start_time)
    /\ Val(end_time) < MaxT

----------------------------------------------------------------------------
(* SpecQuery: a DataEngine whose entities are hidden, shown and queried *)

\* a caller's assignment to the public attribute Entity.visible
SetVisible ==
    /\ \E id \in DOMAIN entities, flag \in BOOLEAN :
          /\ entities[id].visible # flag
          /\ entities' = [ entities EXCEPT ![id].visible = flag ]
    /\ query' = NoQuery
    /\ op' = "set_visible"
    /\ UNCHANGED <<entity, current_time, trail_length, trail, start_time,
                   end_time, lines, import_result, current_entities,
                   reference_time>>
    /\ UNCHANGED <<engines, main_window, view_control>>

GetEntitiesAtTime ==
    /\ \E timestamp \in { None } \cup { Some(t) : t \in QueryTimes } :
          query' = [ timestamp |-> timestamp,
                     result |-> get_entities_at_time(Engine, timestamp) ]
    /\ op' = "get_entities_at_time"
    /\ UNCHANGED <<entity, current_time, trail_length, trail, entities,
                   start_time, end_time, lines, import_result,
                   current_entities, reference_time>>
    /\ UNCHANGED <<engines, main_window, view_control>>

NextQuery == AddTrack \/ SetVisible \/ GetEntitiesAtTime

SpecQuery == InitEngine /\ [][NextQuery]_vars

----------------------------------------------------------------------------
(* Properties of get_entities_at_time (SpecQuery) *)

\* C18: get_entities_at_time(t) returns an entry for an entity exactly when
\* the entity is stored, visible and has a position at t, and the entry
\* pairs the entity with that position; the call changes no entity, bound
\* or cursor, and a change of an entity's visible flag changes no stored
\* sample.
C18_Step ==
    /\ (op' = "get_entities_at_time") =>
          LET t == IF query'.timestamp = None THEN current_time
                   ELSE query'.timestamp
              at(id) == get_position_at(entities[id], Val(t))
          IN  /\ UNCHANGED <<entities, start_time, end_time, current_time>>
              /\ t = None => query'.result.entries = EmptyDict
              /\ t # None =>
                    \A id \in EngineIds :
                        /\ id \in DOMAIN query'.result.entries
                              <=> /\ id \in DOMAIN entities
                                  /\ entities[id].visible
                                  /\ at(id).kind = "position"
                        /\ id \in DOMAIN query'.result.entries =>
                              query'.result.entries[id]
                                = [ entity |-> entities[id],
                                    position |-> at(id).position ]
    /\ (op' = "set_visible") =>
          /\ DOMAIN entities' = DOMAIN entities
          /\ \A id \in DOMAIN entities :
                /\ entities'[id].trajectory = entities[id].trajectory
                /\ entities'[id].timestamps = entities[id].timestamps

C18_EntriesAreVisiblePositions == [][C18_Step]_vars

----------------------------------------------------------------------------
(* Properties of the cursor after an import (SpecImport) *)

\* C20: right after a successful import into a fresh registry that retains
\* at least one entity, the cursor equals the registry's start_time,
\* whatever the order in which the ids were first seen and positioned.
C20_Step ==
    ( /\ op' = "import_file"
      /\ import_result' = Some(TRUE)
      /\ Engine = DataEngine
      /\ DOMAIN entities' # {} )
    => /\ current_time' # None
       /\ current_time' = start_time'

C20_CursorAtStartAfterImport == [][C20_Step]_vars

----------------------------------------------------------------------------
(* SpecWindow: the main window opening files, its time slider and reset    *)
(* button, and the playback timer and arrow keys of the view               *)

\* header / #0 / A1,..,T=120|60|0 / #2 / A1,T=121|61|5 : A1 over two seconds
FileTwoSeconds ==
    << FileTypeOK, ReferenceTimeOK, Frame(Some(0)), LineA, Frame(Some(2)), LineC >>
\* header / #1 / 2,..,T=122|60|0|10|20|30 : one explosion at one instant
FileOneInstant == << FileTypeOK, ReferenceTimeOK, Frame(Some(1)), LineD >>
\* header / #1 : a successful import of nothing
FileNoEntity == << FileTypeOK, ReferenceTimeOK, Frame(Some(1)) >>
\* a file that is not ACMI
FileNotAcmi == << Garbage, Frame(Some(1)), LineA >>
\* a header without reference time: the first frame line aborts the parse
FileNoReference == << FileTypeOK, Frame(Some(1)), LineA >>

WindowFiles ==
    { FileTwoSeconds, FileOneInstant, FileNoEntity, FileNotAcmi,
      FileNoReference }

\* the menu action: the dialog is cancelled or a file is chosen
OpenFile ==
    /\ \E file \in { None } \cup { Some(ls) : ls \in WindowFiles } :
          /\ SetWindow(open_file(Window, file))
          /\ IF file = None
             THEN UNCHANGED <<lines, import_result, reference_time,
                              current_entities>>
             ELSE LET out == import_file(DataEngine, None, Val(file))
                  IN  /\ lines' = Val(file)
                      /\ import_result' = Some(out.result)
                      /\ reference_time' = out.reference_time
                      /\ current_entities' = out.current_entities
    /\ op' = "open_file"
    /\ UNCHANGED <<entity, query, current_time, trail_length, trail,
                   entities, start_time, end_time>>

\* the user moves the enabled time slider to another whole second
TimeSliderChanged ==
    /\ main_window.time_slider.enabled
    /\ \E value \in 0 .. main_window.time_slider.maximum :
          /\ value % 10 = 0
          /\ value # main_window.time_slider.value
          /\ SetWindow(setValue(Window, value))
    /\ op' = "time_slider_changed"
    /\ UNCHANGED <<entity, query, current_time, trail_length, trail,
                   entities, start_time, end_time, lines, import_result,
                   current_entities, reference_time>>

\* the reset button
ResetTime ==
    /\ SetWindow(reset_time(Window))
    /\ op' = "reset_time"
    /\ UNCHANGED <<entity, query, current_time, trail_length, trail,
                   entities, start_time, end_time, lines, import_result,
                   current_entities, reference_time>>

\* a tick of the play timer at play_speed 10: 0.1 * 10 seconds
PlayTick ==
    /\ SetWindow(ViewControl_advance_time(Window, 1))
    /\ op' = "advance_time"
    /\ UNCHANGED <<entity, query, current_time, trail_length, trail,
                   entities, start_time, end_time, lines, import_result,
                   current_entities, reference_time>>

\* the Right arrow key in the view
KeyRight ==
    /\ SetWindow(keyPressEvent(Window, "Key_Right"))
    /\ op' = "key_right"
    /\ UNCHANGED <<entity, query, current_time, trail_length, trail,
                   entities, start_time, end_time, lines, import_result,
                   current_entities, reference_time>>

\* the Left arrow key in the view, followed until the cursor is MaxRewind
\* seconds before start_time
KeyLeft ==
    /\ LET eng == engines[view_control.data_engine]
       IN  eng.current_time # None =>
              Val(eng.current_time) - 5 >= Val(eng.start_time) - MaxRewind
    /\ SetWindow(keyPressEvent(Window, "Key_Left"))
    /\ op' = "key_left"
    /\ UNCHANGED <<entity, query, current_time, trail_length, trail,
                   entities, start_time, end_time, lines, import_result,
                   current_entities, reference_time>>

NextWindow ==
    OpenFile \/ TimeSliderChanged \/ ResetTime \/ PlayTick \/ KeyRight
    \/ KeyLeft

SpecWindow == InitEngine /\ [][NextWindow]_vars

----------------------------------------------------------------------------
(* Properties of the window's registries (SpecWindow) *)

WindowEngine == engines[main_window.data_engine]
ViewEngine == engines[view_control.data_engine]

\* C19: after any sequence of open_file attempts, successful or failed, the
\* registry the main window uses for the time slider, reset and time label
\* is the registry the renderer and the playback timer use, and a failed
\* import leaves the previously loaded registry in place for both.
C19_Step ==
    (op' = "open_file") =>
        /\ main_window'.data_engine = view_control'.data_engine
        /\ import_result' = Some(FALSE) =>
              /\ WindowEngine' = WindowEngine
              /\ ViewEngine' = ViewEngine

C19_OneRegistryForWindowAndView == [][C19_Step]_vars

----------------------------------------------------------------------------
(* Properties of the cursor under playback and time controls (SpecWindow) *)

CursorMoves ==
    { "advance_time", "key_right", "key_left", "time_slider_changed",
      "reset_time" }

\* the seconds a timer tick or an arrow key adds to the cursor
StepSeconds(o) ==
    IF o = "advance_time" THEN 1
    ELSE IF o = "key_right" THEN 5
    ELSE IF o = "key_left" THEN -5
    ELSE 0

WithinBounds(eng) ==
    eng.current_time # None =>
        /\ eng.start_time # None
        /\ eng.end_time # None
        /\ Val(eng.start_time) <= Val(eng.current_time)
        /\ Val(eng.current_time) <= Val(eng.end_time)

\* C21: once a file has been imported, every playback timer tick, Right or
\* Left arrow key step, time slider move and time reset leaves the cursor
\* of each registry in use within [start_time, end_time]; a tick or key
\* step that would take the cursor past end_time puts it at start_time.
C21_Step ==
    (op' \in CursorMoves) =>
        /\ WithinBounds(WindowEngine')
        /\ WithinBounds(ViewEngine')
        /\ ( /\ ViewEngine.current_time # None
             /\ Val(ViewEngine.current_time) + StepSeconds(op')
                    > Val(ViewEngine.end_time) )
           => ViewEngine'.current_time = ViewEngine'.start_time

C21_CursorStaysWithinBounds == [][C21_Step]_vars

====
